---- MODULE Spec2Model ----
(***************************************************************************)
(* Model of the DataRoom component (src/src/components/DataRoom.tsx):      *)
(* its React state, the asynchronous list / uploadData / remove calls it   *)
(* has in flight, and the handlers that react to their outcomes.           *)
(*                                                                         *)
(* Every action is one run-to-completion turn of the single UI thread: an  *)
(* event handler up to its first await, or the continuation that resumes   *)
(* when a store call settles, together with the promise reactions that     *)
(* settle in the same turn.                                                *)
(***************************************************************************)
EXTENDS Integers, Sequences, FiniteSets, TLC

\* history variables: published is the file set the last resolved list call
\* published; newest is the outcome of the most recently issued list call;
\* fresh holds the folder of the last resolved list call for as long as the
\* store has not changed since, twice once a second list call for that
\* folder has resolved. clicks counts the user's clicks on the listing
\* controls
VARIABLES files, uploadProgress, loading, error, selectedFolder,
          store, now, batches, lists, deletes, timers, clicks, published,
          newest, fresh

vars == <<files, uploadProgress, loading, error, selectedFolder,
          store, now, batches, lists, deletes, timers, clicks, published,
          newest, fresh>>

(* ---------------------------- bounds ----------------------------------- *)
\* number of batches submitted in one run
MaxBatches == 2
\* number of files selected in one batch
MaxFiles == 2
\* number of files uploaded in one run, over all batches
MaxTasks == 2
\* last value the millisecond clock takes
MaxClock == 2
\* list calls in flight at the same time
MaxLists == 2
\* remove calls in flight at the same time
MaxDeletes == 1
\* clicks on the folder buttons, the Refresh button and the Delete buttons
MaxClicks == 2

(* --------------------------- input sets -------------------------------- *)
\* original names of the selected files
Names == {"a.txt", "b.txt"}
\* folder names the user can select; <<>> is the root folder ''
Folders == {<<>>, <<"p">>}
\* size in bytes of every uploaded file
FileSize == 2
\* the identity id the identity provider supplies when it is available
IdentityId == "id1"

(* ------------------------- error messages ------------------------------ *)
NoError == "null"
ErrLoad == "Failed to load files"
ErrUpload == "Some files failed to upload"
ErrDelete == "Failed to delete file"

(* ------------------------- pure helpers -------------------------------- *)
\* strings are sequences of tokens; a template literal is a concatenation
IsPrefix(p, s) == Len(p) <= Len(s) /\ SubSeq(s, 1, Len(p)) = p

\* a list path that leaves the folder out
ListPathRoot(identityId, folder) == <<"user-files/", identityId, "/">>

\* `user-files/${identityId}/${selectedFolder}`
ListPath(identityId, folder) == <<"user-files/", identityId, "/">> \o folder

\* `${Date.now()}-${file.name}`
FileName(t, name) == <<ToString(t), "-", name>>

\* selectedFolder ? `${selectedFolder}/` : ''
FolderPath(folder) == IF folder # <<>> THEN folder \o <<"/">> ELSE <<>>

\* `user-files/${identityId}/${folderPath}${fileName}`
UploadPath(identityId, folderPath, fileName) ==
    <<"user-files/", identityId, "/">> \o folderPath \o fileName

\* what the store answers to list({path, listAll: true})
ListResult(objects, path) == {o \in objects : IsPrefix(path, o)}

\* Math.round((transferredBytes / totalBytes) * 100)
Percent(transferredBytes, totalBytes) ==
    (200 * transferredBytes + totalBytes) \div (2 * totalBytes)

\* fileArray.map(file => ({fileName: file.name, progress: 0, isUploading: true}))
InitialProgress(names) ==
    [i \in 1..Len(names) |->
        [fileName |-> names[i], progress |-> 0, isUploading |-> TRUE]]

\* prev.map((item, i) => i === index ? {...item, progress} : item)
SetProgress(prev, index, progress) ==
    [j \in 1..Len(prev) |->
        IF j = index THEN [prev[j] EXCEPT !.progress = progress] ELSE prev[j]]

\* prev.map((item, i) => i === index ? {...item, isUploading: false, progress: 100} : item)
MarkCompleted(prev, index) ==
    [j \in 1..Len(prev) |->
        IF j = index
        THEN [prev[j] EXCEPT !.isUploading = FALSE, !.progress = 100]
        ELSE prev[j]]

\* prev.map((item, i) => i === index ? {...item, isUploading: false, progress: 0} : item)
MarkFailed(prev, index) ==
    [j \in 1..Len(prev) |->
        IF j = index
        THEN [prev[j] EXCEPT !.isUploading = FALSE, !.progress = 0]
        ELSE prev[j]]

\* the sequence s without its k-th element
RemoveAt(s, k) == SubSeq(s, 1, k - 1) \o SubSeq(s, k + 1, Len(s))

\* Date.now() read once per file of the synchronous map: ticks[i] is the
\* number of milliseconds that passed before the i-th read
RECURSIVE ClockAt(_, _, _)
ClockAt(t0, ticks, i) == IF i = 0 THEN t0 ELSE ClockAt(t0, ticks, i - 1) + ticks[i]

(* ----------------------------- state ----------------------------------- *)
Batches == 1..MaxBatches
Used == {b \in Batches : batches[b].pc # "unused"}
TaskIdx(b) == 1..Len(batches[b].tasks)
Terminal == {"completed", "failed"}

\* the user's namespace in the store when the component is mounted
InitStore == {}

UnusedBatch == [pc |-> "unused", tasks |-> <<>>, scope |-> <<>>,
                outcome |-> "none", refreshed |-> FALSE]

\* the state after the first render and its mount effect (loadFiles for '')
Init ==
    /\ files = {}
    /\ uploadProgress = <<>>
    /\ loading = TRUE
    /\ error = NoError
    /\ selectedFolder = <<>>
    /\ store = InitStore
    /\ now = 1
    /\ batches = [b \in Batches |-> UnusedBatch]
    /\ lists = <<[scope |-> <<>>, origin |-> "refresh",
                  path |-> ListPath(IdentityId, <<>>)]>>
    /\ deletes = {}
    /\ timers = {}
    /\ clicks = 0
    /\ published = {}
    /\ newest = "pending"
    /\ fresh = <<>>

(* ---------------------------- loadFiles -------------------------------- *)
\* loadFiles up to its await: setLoading(true); setError(null); list(...).
\* scope is the selectedFolder the calling closure captured.
\* path is what the path callback of list returns when it is given an
\* identityId.
ListCall(scope, origin) ==
    [scope |-> scope, origin |-> origin, path |-> ListPath(IdentityId, scope)]

\* the mount / dependency effect: useEffect(() => { loadFiles() }, [loadFiles])
\* runs in the turn that commits a changed selectedFolder
setSelectedFolder(folder) ==
    /\ folder # selectedFolder
    /\ clicks < MaxClicks
    /\ clicks' = clicks + 1
    /\ Len(lists) < MaxLists
    /\ selectedFolder' = folder
    /\ loading' = TRUE
    /\ error' = NoError
    /\ lists' = Append(lists, ListCall(folder, "refresh"))
    /\ UNCHANGED <<files, uploadProgress, store, now, batches, deletes, timers, published>>
    /\ newest' = "pending"
    /\ UNCHANGED fresh

\* the Refresh button: onClick={loadFiles}, disabled while loading
RefreshClick ==
    /\ ~loading
    /\ clicks < MaxClicks
    /\ clicks' = clicks + 1
    /\ Len(lists) < MaxLists
    /\ loading' = TRUE
    /\ error' = NoError
    /\ lists' = Append(lists, ListCall(selectedFolder, "refresh"))
    /\ UNCHANGED <<files, uploadProgress, selectedFolder, store, now, batches,
                   deletes, timers, published>>
    /\ newest' = "pending"
    /\ UNCHANGED fresh

\* the error state once the caller of loadFiles has resumed: handleDeleteFile
\* runs setError(null) after its await loadFiles()
AfterLoadFiles(origin, err) == IF origin = "delete" THEN NoError ELSE err

\* an incremental update that publishes only the items not yet shown
ListResolvedDiff(k) ==
    /\ k \in 1..Len(lists)
    /\ files' = ListResult(store, lists[k].path) \ files
    /\ published' = ListResult(store, lists[k].path) \ files
    /\ loading' = FALSE
    /\ error' = AfterLoadFiles(lists[k].origin, error)
    /\ lists' = RemoveAt(lists, k)
    /\ UNCHANGED <<uploadProgress, selectedFolder, store, now, batches,
                   deletes, timers, clicks>>
    /\ newest' = IF newest = "pending" /\ k = Len(lists) THEN "resolved" ELSE newest
    /\ fresh' = IF fresh # <<>> /\ fresh[1] = lists[k].scope
                THEN <<lists[k].scope, lists[k].scope>>
                ELSE <<lists[k].scope>>

\* list resolves: setFiles(result.items || []); finally setLoading(false)
ListResolved(k) ==
    /\ k \in 1..Len(lists)
    /\ files' = ListResult(store, lists[k].path)
    /\ published' = ListResult(store, lists[k].path)
    /\ loading' = FALSE
    /\ error' = AfterLoadFiles(lists[k].origin, error)
    /\ lists' = RemoveAt(lists, k)
    /\ UNCHANGED <<uploadProgress, selectedFolder, store, now, batches,
                   deletes, timers, clicks>>
    /\ newest' = IF newest = "pending" /\ k = Len(lists) THEN "resolved" ELSE newest
    /\ fresh' = IF fresh # <<>> /\ fresh[1] = lists[k].scope
                THEN <<lists[k].scope, lists[k].scope>>
                ELSE <<lists[k].scope>>

\* a catch block that blanks the list: setFiles([]) on error
ListRejectedClearing(k) ==
    /\ k \in 1..Len(lists)
    /\ files' = {}
    /\ loading' = FALSE
    /\ error' = AfterLoadFiles(lists[k].origin, ErrLoad)
    /\ lists' = RemoveAt(lists, k)
    /\ UNCHANGED <<uploadProgress, selectedFolder, store, now, batches,
                   deletes, timers, clicks, published>>
    /\ newest' = IF newest = "pending" /\ k = Len(lists) THEN "rejected" ELSE newest
    /\ UNCHANGED fresh

\* list rejects (store error, or the path callback throws because identityId
\* is missing): catch setError('Failed to load files'); finally setLoading(false)
ListRejected(k) ==
    /\ k \in 1..Len(lists)
    /\ files' = files
    /\ loading' = FALSE
    /\ error' = AfterLoadFiles(lists[k].origin, ErrLoad)
    /\ lists' = RemoveAt(lists, k)
    /\ UNCHANGED <<uploadProgress, selectedFolder, store, now, batches,
                   deletes, timers, clicks, published>>
    /\ newest' = IF newest = "pending" /\ k = Len(lists) THEN "rejected" ELSE newest
    /\ UNCHANGED fresh

(* -------------------------- handleFileSelect ---------------------------- *)
\* the batches are numbered in the order of their submission
NextBatch == Cardinality(Used) + 1

\* the number of upload promises created so far
RECURSIVE TaskCount(_)
TaskCount(b) == IF b = 0 THEN 0 ELSE Len(batches[b].tasks) + TaskCount(b - 1)

\* the closure state of one element of uploadPromises; transferred records
\* its latest onProgress call
NewTask(name, t, folder) ==
    [name |-> name, fileName |-> FileName(t, name),
     folderPath |-> FolderPath(folder), pc |-> "resolving",
     path |-> <<>>, transferred |-> 0]

\* handleFileSelect up to await Promise.all: the progress list is replaced
\* and every uploadData call is issued in this one synchronous turn
handleFileSelect(names, ticks) ==
    /\ NextBatch \in Batches
    /\ TaskCount(MaxBatches) + Len(names) <= MaxTasks
    /\ ClockAt(now, ticks, Len(names)) <= MaxClock
    \* the clock is counted from the first read of Date.now()
    /\ NextBatch = 1 => ticks[1] = 0
    /\ uploadProgress' = InitialProgress(names)
    /\ batches' = [batches EXCEPT ![NextBatch] =
            [pc |-> "awaiting",
             tasks |-> [i \in 1..Len(names) |->
                          NewTask(names[i], ClockAt(now, ticks, i), selectedFolder)],
             scope |-> selectedFolder,
             outcome |-> "none",
             refreshed |-> FALSE]]
    /\ now' = ClockAt(now, ticks, Len(names))
    /\ UNCHANGED <<files, loading, error, selectedFolder, store, lists,
                   deletes, timers, clicks, published,
                   newest, fresh>>

\* a path callback that reads the folder when it runs, not when the batch
\* was submitted
PathResolvedLate(b, i) ==
    /\ b \in Used /\ i \in TaskIdx(b)
    /\ batches[b].tasks[i].pc = "resolving"
    /\ LET task == batches[b].tasks[i]
       IN batches' = [batches EXCEPT ![b].tasks[i] =
            [task EXCEPT !.pc = "uploading",
                 !.path = UploadPath(IdentityId, FolderPath(selectedFolder),
                                     task.fileName)]]
    /\ UNCHANGED <<files, uploadProgress, loading, error, selectedFolder,
                   store, now, lists, deletes, timers, clicks, published,
                   newest, fresh>>

\* the path callback of uploadData finds an identityId: the put is issued
PathResolved(b, i) ==
    /\ b \in Used /\ i \in TaskIdx(b)
    /\ batches[b].tasks[i].pc = "resolving"
    /\ LET task == batches[b].tasks[i]
       IN batches' = [batches EXCEPT ![b].tasks[i] =
            [task EXCEPT !.pc = "uploading",
                 !.path = UploadPath(IdentityId, task.folderPath, task.fileName)]]
    /\ UNCHANGED <<files, uploadProgress, loading, error, selectedFolder,
                   store, now, lists, deletes, timers, clicks, published,
                   newest, fresh>>

\* onProgress({transferredBytes, totalBytes}); totalBytes = 0 stands for an
\* absent total
onProgress(b, i, transferredBytes, totalBytes) ==
    /\ b \in Used /\ i \in TaskIdx(b)
    /\ batches[b].tasks[i].pc = "uploading"
    /\ transferredBytes >= batches[b].tasks[i].transferred
    /\ batches' = [batches EXCEPT ![b].tasks[i].transferred = transferredBytes]
    /\ uploadProgress' =
         IF totalBytes # 0
         THEN SetProgress(uploadProgress, i, Percent(transferredBytes, totalBytes))
         ELSE uploadProgress
    /\ UNCHANGED <<files, loading, error, selectedFolder, store, now, lists,
                   deletes, timers, clicks, published,
                   newest, fresh>>

\* the file names the batch-level error message carries: the message passed
\* to setError after Promise.all is a constant and names no file
FailedNamesIn(message) == {}

\* Promise.all(uploadPromises) fulfils in the turn in which its last promise
\* fulfils
AllFulfilled(tasks) == \A j \in 1..Len(tasks) : tasks[j].pc = "completed"

\* the put of task i succeeds: the task is marked completed; when it is the
\* last one, the try block after Promise.all runs up to await loadFiles()
UploadFulfilled(b, i) ==
    /\ b \in Used /\ i \in TaskIdx(b)
    /\ batches[b].tasks[i].pc = "uploading"
    /\ store' = store \cup {batches[b].tasks[i].path}
    /\ fresh' = <<>>
    /\ uploadProgress' = MarkCompleted(uploadProgress, i)
    /\ LET tasks == [batches[b].tasks EXCEPT ![i].pc = "completed"]
       IN IF batches[b].pc = "awaiting" /\ AllFulfilled(tasks)
          THEN /\ Len(lists) < MaxLists
               /\ batches' = [batches EXCEPT ![b] =
                      [@ EXCEPT !.tasks = tasks, !.pc = "resolved",
                                !.outcome = "Success", !.refreshed = TRUE]]
               /\ error' = NoError
               /\ timers' = timers \cup {b}
               /\ loading' = TRUE
               /\ lists' = Append(lists, ListCall(batches[b].scope, "refresh"))
               /\ newest' = "pending"
          ELSE /\ batches' = [batches EXCEPT ![b].tasks = tasks]
               /\ UNCHANGED <<error, timers, loading, lists, newest>>
    /\ UNCHANGED <<files, selectedFolder, now, deletes, clicks, published>>

\* a catch block that marks every entry failed: the map without i === index
UploadCatchAll(b, i) ==
    /\ uploadProgress' =
         [j \in 1..Len(uploadProgress) |->
            [uploadProgress[j] EXCEPT !.isUploading = FALSE, !.progress = 0]]
    /\ IF batches[b].pc = "awaiting"
       THEN /\ batches' = [batches EXCEPT ![b] =
                   [@ EXCEPT !.tasks[i].pc = "failed", !.pc = "rejected",
                             !.outcome = ErrUpload]]
            /\ error' = ErrUpload
       ELSE /\ batches' = [batches EXCEPT ![b].tasks[i].pc = "failed"]
            /\ UNCHANGED error
    /\ UNCHANGED <<files, loading, selectedFolder, store, now, lists,
                   deletes, timers, clicks, published,
                   newest, fresh>>

\* the catch block of one upload promise, and, when it is the first promise
\* of its batch to reject, the catch block after Promise.all
UploadCatch(b, i) ==
    /\ uploadProgress' = MarkFailed(uploadProgress, i)
    /\ IF batches[b].pc = "awaiting"
       THEN /\ batches' = [batches EXCEPT ![b] =
                   [@ EXCEPT !.tasks[i].pc = "failed", !.pc = "rejected",
                             !.outcome = ErrUpload]]
            /\ error' = ErrUpload
       ELSE /\ batches' = [batches EXCEPT ![b].tasks[i].pc = "failed"]
            /\ UNCHANGED error
    /\ UNCHANGED <<files, loading, selectedFolder, store, now, lists,
                   deletes, timers, clicks, published,
                   newest, fresh>>

\* the path callback throws 'User not authenticated': no put is issued
PathRejected(b, i) ==
    /\ b \in Used /\ i \in TaskIdx(b)
    /\ batches[b].tasks[i].pc = "resolving"
    /\ UploadCatch(b, i)

\* the put of task i fails in the store or in transport
UploadRejected(b, i) ==
    /\ b \in Used /\ i \in TaskIdx(b)
    /\ batches[b].tasks[i].pc = "uploading"
    /\ UploadCatch(b, i)

\* setTimeout(() => { setUploadProgress([]) }, 2000)
CleanupTimer(b) ==
    /\ b \in timers
    /\ timers' = timers \ {b}
    /\ uploadProgress' = <<>>
    /\ UNCHANGED <<files, loading, error, selectedFolder, store, now, batches,
                   lists, deletes, clicks, published,
                   newest, fresh>>

(* -------------------------- handleDeleteFile ---------------------------- *)
\* handleDeleteFile up to await remove(...), the confirm dialog accepted
handleDeleteFile(filePath) ==
    /\ filePath \in files
    /\ clicks < MaxClicks
    /\ clicks' = clicks + 1
    /\ Cardinality(deletes) < MaxDeletes
    /\ deletes' = deletes \cup {[path |-> filePath, scope |-> selectedFolder]}
    /\ UNCHANGED <<files, uploadProgress, loading, error, selectedFolder,
                   store, now, batches, lists, timers, published,
                   newest, fresh>>

\* remove resolves: the handler runs on into loadFiles, up to its await
RemoveResolved(d) ==
    /\ d \in deletes
    /\ Len(lists) < MaxLists
    /\ deletes' = deletes \ {d}
    /\ store' = store \ {d.path}
    /\ loading' = TRUE
    /\ error' = NoError
    /\ lists' = Append(lists, ListCall(d.scope, "delete"))
    /\ UNCHANGED <<files, uploadProgress, selectedFolder, now, batches, timers, clicks, published>>
    /\ newest' = "pending"
    /\ fresh' = <<>>

\* an optimistic removal that is not rolled back when remove rejects
RemoveRejectedOptimistic(d) ==
    /\ d \in deletes
    /\ deletes' = deletes \ {d}
    /\ files' = files \ {d.path}
    /\ error' = ErrDelete
    /\ UNCHANGED <<uploadProgress, loading, selectedFolder, store, now,
                   batches, lists, timers, clicks, published,
                   newest, fresh>>

\* remove rejects: catch setError('Failed to delete file')
RemoveRejected(d) ==
    /\ d \in deletes
    /\ deletes' = deletes \ {d}
    /\ error' = ErrDelete
    /\ UNCHANGED <<files, uploadProgress, loading, selectedFolder, store, now,
                   batches, lists, timers, clicks, published,
                   newest, fresh>>

(* --------------------------- specification ------------------------------ *)
\* the selections the file input can deliver: up to MaxFiles files, with
\* equal or different names
Selections ==
    {names \in UNION {[1..n -> Names] : n \in 1..MaxFiles} : names[1] = "a.txt"}

Next ==
    \/ \E f \in Folders : setSelectedFolder(f)
    \/ RefreshClick
    \/ \E k \in 1..MaxLists : ListResolved(k)
    \/ \E k \in 1..MaxLists : ListRejected(k)
    \/ \E names \in Selections : \E ticks \in [1..Len(names) -> 0..1] :
          handleFileSelect(names, ticks)
    \/ \E b \in Batches, i \in 1..MaxFiles : PathResolved(b, i)
    \/ \E b \in Batches, i \in 1..MaxFiles : PathRejected(b, i)
    \/ \E b \in Batches, i \in 1..MaxFiles :
          \E t \in 0..FileSize, total \in {0, FileSize} : onProgress(b, i, t, total)
    \/ \E b \in Batches, i \in 1..MaxFiles : UploadFulfilled(b, i)
    \/ \E b \in Batches, i \in 1..MaxFiles : UploadRejected(b, i)
    \/ \E b \in Batches : CleanupTimer(b)
    \/ \E p \in files : handleDeleteFile(p)
    \/ \E d \in deletes : RemoveResolved(d)
    \/ \E d \in deletes : RemoveRejected(d)

Spec == Init /\ [][Next]_vars

(* ------------------------------ claims ---------------------------------- *)
\* vocabulary of the claims
AllTerminal(tasks) == \A j \in 1..Len(tasks) : tasks[j].pc \in Terminal
FailedIdx(tasks) == {j \in 1..Len(tasks) : tasks[j].pc = "failed"}
\* the put of a task reached the store
PutIssued(task) == task.path # <<>>
\* the published entry at position i shows a completed / a failed upload
ShowsCompleted(progressList, i) ==
    /\ i \in 1..Len(progressList)
    /\ progressList[i].progress = 100
    /\ ~progressList[i].isUploading
ShowsFailed(progressList, i) ==
    /\ i \in 1..Len(progressList)
    /\ progressList[i].progress = 0
    /\ ~progressList[i].isUploading

\* C1: a batch outcome (success or 'some files failed') is reported only
\* once every task of the batch is terminal
C1_WaitForAll ==
    \A b \in Used :
        batches[b].outcome # "none" => AllTerminal(batches[b].tasks)

\* C2: in the turn in which the last task of a batch with K >= 1 failed puts
\* becomes terminal, the batch result is the partial failure carrying exactly
\* the K failed names, the failed tasks show Failed / 0 and the others
\* Completed / 100
C2_PartialFailure ==
    [][\A b \in Batches :
         ( /\ ~AllTerminal(batches[b].tasks)
           /\ AllTerminal(batches'[b].tasks)
           /\ FailedIdx(batches'[b].tasks) # {} )
         => /\ batches'[b].outcome = ErrUpload
            /\ FailedNamesIn(batches'[b].outcome) =
                 {batches'[b].tasks[i].name : i \in FailedIdx(batches'[b].tasks)}
            /\ \A i \in 1..Len(batches'[b].tasks) :
                 IF i \in FailedIdx(batches'[b].tasks)
                 THEN ShowsFailed(uploadProgress', i)
                 ELSE ShowsCompleted(uploadProgress', i)
      ]_vars

\* C3: the turn in which one task of a batch fails changes neither the
\* closure state of a sibling task (its put stays in flight) nor any other
\* entry of the published progress list
C3_Isolation ==
    [][\A b \in Batches : \A i \in 1..Len(batches[b].tasks) :
         ( /\ batches[b].tasks[i].pc # "failed"
           /\ batches'[b].tasks[i].pc = "failed" )
         => /\ \A j \in 1..Len(batches[b].tasks) :
                 j # i => batches'[b].tasks[j] = batches[b].tasks[j]
            /\ Len(uploadProgress') = Len(uploadProgress)
            /\ \A j \in 1..Len(uploadProgress) :
                 j # i => uploadProgress'[j] = uploadProgress[j]
      ]_vars

\* a task failed while its sibling was in flight, and the sibling went on to
\* complete
C3_Witness ==
    \E b \in Used :
        /\ Len(batches[b].tasks) = 2
        /\ batches[b].tasks[1].pc = "failed"
        /\ batches[b].tasks[2].pc = "completed"
        /\ ShowsFailed(uploadProgress, 1)
        /\ ShowsCompleted(uploadProgress, 2)

\* C4: the puts of one batch that reach the store go to pairwise distinct
\* paths
C4_DistinctPaths ==
    \A b \in Used : \A i, j \in TaskIdx(b) :
        ( /\ i # j
          /\ PutIssued(batches[b].tasks[i])
          /\ PutIssued(batches[b].tasks[j]) )
        => batches[b].tasks[i].path # batches[b].tasks[j].path

\* C5: a batch whose outcome is reported and whose tasks are all terminal
\* has triggered a listing refresh
C5_RefreshAfterBatch ==
    \A b \in Used :
        (batches[b].outcome # "none" /\ AllTerminal(batches[b].tasks))
        => batches[b].refreshed

\* C6: the published file set is always the one the last resolved list call
\* published: a rejected list call (or any other turn) never clears or
\* alters it
C6_RefreshErrorKeepsFiles == files = published

\* a list call was rejected while M > 0 files were published
C6_Witness ==
    /\ error = ErrLoad
    /\ published # {}
    /\ files = published

\* C7: when no task of a batch finds an identity id, the batch error is a
\* top-level error different from the per-file upload failure error
C7_AuthRequired ==
    \A b \in Used :
        ( /\ batches[b].outcome # "none"
          /\ \A i \in TaskIdx(b) :
                batches[b].tasks[i].pc = "failed" /\ ~PutIssued(batches[b].tasks[i]) )
        => batches[b].outcome # ErrUpload

\* C8: a change of selectedFolder issues a list call for the new folder and
\* leaves every batch as it is, and every put that reaches the store goes to
\* the path computed from the folder selected when its batch was submitted
C8_ScopeChange ==
    /\ [][selectedFolder' # selectedFolder
            => /\ lists' = Append(lists, ListCall(selectedFolder', "refresh"))
               /\ loading'
               /\ batches' = batches
               /\ uploadProgress' = uploadProgress
               /\ store' = store
         ]_vars
    /\ [](\A b \in Used : \A i \in TaskIdx(b) :
            PutIssued(batches[b].tasks[i])
            => batches[b].tasks[i].path =
                 UploadPath(IdentityId, FolderPath(batches[b].scope),
                            batches[b].tasks[i].fileName))

\* a task completed against the folder of its submission after the user
\* had moved to another folder
C8_Witness ==
    \E b \in Used : \E i \in TaskIdx(b) :
        /\ batches[b].scope # selectedFolder
        /\ batches[b].tasks[i].pc = "completed"
        /\ batches[b].tasks[i].path \in store
        /\ IsPrefix(ListPath(IdentityId, FolderPath(batches[b].scope)),
                    batches[b].tasks[i].path)

\* C9: in the turn in which the last put of a batch without failures
\* succeeds, the batch result is Success, no error is shown, and every task
\* of the batch shows Completed / 100
C9_AllSuccess ==
    [][\A b \in Batches :
         ( /\ batches[b].tasks # <<>>
           /\ ~AllFulfilled(batches[b].tasks)
           /\ AllFulfilled(batches'[b].tasks) )
         => /\ batches'[b].outcome = "Success"
            /\ error' = NoError
            /\ \A i \in 1..Len(batches'[b].tasks) : ShowsCompleted(uploadProgress', i)
      ]_vars

\* C10: neither the click on Delete nor the turn in which remove rejects
\* changes the published file set, and that turn leaves a non-null error
C10_DeleteFailure ==
    [][ /\ deletes' # deletes => files' = files
        /\ (\E d \in deletes : deletes' = deletes \ {d} /\ lists' = lists)
             => (error' # NoError /\ store' = store)
      ]_vars

\* remove was rejected for a file that is still published
C10_Witness ==
    /\ error = ErrDelete
    /\ deletes = {}
    /\ files # {}

\* the batch whose handleFileSelect last replaced the progress list (0: none)
Owner == Cardinality(Used)

\* C11: when a list call settles for the folder of the last resolved list
\* call and the store has not changed in between, the published file set is
\* the one that earlier call published
C11_ListingIdempotent ==
    [][\A k \in 1..Len(lists) :
         ( /\ lists' = RemoveAt(lists, k)
           /\ fresh # <<>>
           /\ fresh[1] = lists[k].scope )
         => files' = published
      ]_vars

\* two list calls for one folder resolved in a row over an unchanged,
\* non-empty listing
C11_Witness ==
    /\ Len(fresh) = 2
    /\ files # {}
    /\ files = published

\* C12: the list call a folder change issues asks for user-files/{id}/p
\* (user-files/{id}/ for the root), and every put of a batch submitted in
\* folder p goes to a path that begins with user-files/{id}/p/
\* (user-files/{id}/ for the root)
C12_ScopeInPaths ==
    /\ [][selectedFolder' # selectedFolder
            => /\ lists' # <<>>
               /\ lists'[Len(lists')].path =
                    <<"user-files/", IdentityId, "/">> \o selectedFolder'
         ]_vars
    /\ [](\A b \in Used : \A i \in TaskIdx(b) :
            PutIssued(batches[b].tasks[i])
            => IsPrefix(<<"user-files/", IdentityId, "/">> \o
                          (IF batches[b].scope = <<>> THEN <<>>
                           ELSE batches[b].scope \o <<"/">>),
                        batches[b].tasks[i].path))

\* the user moved to folder p, its list call is in flight or done, and a
\* file submitted there was put under user-files/{id}/p/
C12_Witness ==
    /\ selectedFolder = <<"p">>
    /\ \E b \in Used : \E i \in TaskIdx(b) :
          /\ batches[b].scope = <<"p">>
          /\ batches[b].tasks[i].pc = "completed"
          /\ IsPrefix(<<"user-files/", IdentityId, "/", "p", "/">>,
                      batches[b].tasks[i].path)

\* C13: the turn of a cleanup timer removes no entry of a task that is not
\* yet terminal
C13_CleanupOnlyTerminal ==
    [][(timers' # timers /\ timers' \subseteq timers /\ Owner # 0)
         => \A i \in 1..Len(batches[Owner].tasks) :
               i <= Len(uploadProgress)
               => batches[Owner].tasks[i].pc \in Terminal
      ]_vars

\* C14: while the entries of a batch whose tasks are all terminal are still
\* published, a cleanup timer is pending
C14_EventuallyCleared ==
    (Owner # 0 /\ AllTerminal(batches[Owner].tasks) /\ uploadProgress # <<>>)
    => timers # {}

\* C15: when the most recently issued list call was rejected, the error
\* state is non-null
C15_ListFailureSurfaced == newest = "rejected" => error # NoError

\* C16: with no list call in flight, the most recently issued one resolved
\* and the store unchanged since the last publication, the published file
\* set is the listing of the selected folder
C16_ListingOfCurrentScope ==
    (lists = <<>> /\ newest = "resolved" /\ fresh # <<>>)
    => files = ListResult(store, <<"user-files/", IdentityId, "/">> \o selectedFolder)

\* C17: an event of a task of a batch that no longer owns the progress list
\* changes no published entry
C17_OwnBatchOnly ==
    [][\A b \in Batches : \A i \in 1..Len(batches[b].tasks) :
         ( /\ batches'[b].tasks[i] # batches[b].tasks[i]
           /\ b # Owner )
         => uploadProgress' = uploadProgress
      ]_vars

\* C18: every published progress is in 0..100, and the entry of a task of
\* the owning batch shows: 0 while the path is being resolved, the rounded
\* percentage of one of its callbacks so far while it uploads, 100 and not
\* uploading once Completed, 0 and not uploading once Failed
C18_ProgressValues ==
    /\ \A j \in 1..Len(uploadProgress) : uploadProgress[j].progress \in 0..100
    /\ Owner # 0 =>
         \A i \in 1..Len(batches[Owner].tasks) :
            i <= Len(uploadProgress) =>
               LET task == batches[Owner].tasks[i]
                   entry == uploadProgress[i]
               IN CASE task.pc = "resolving" ->
                         entry.isUploading /\ entry.progress = 0
                    [] task.pc = "uploading" ->
                         /\ entry.isUploading
                         /\ entry.progress \in
                              {0} \cup {Percent(t, FileSize) : t \in 0..task.transferred}
                    [] task.pc = "completed" -> ShowsCompleted(uploadProgress, i)
                    [] task.pc = "failed" -> ShowsFailed(uploadProgress, i)

\* C19: the loading flag is true exactly while a list call is in flight
C19_LoadingTracksLists == loading <=> (lists # <<>>)

====
